---------------------------- MODULE Spec2Model ----------------------------
(***************************************************************************)
(* Model of the nathy-vtuber backend (src/backend): the AudioBuffer ring,  *)
(* the voice-activity callback, the two turn pipelines of                  *)
(* VTuberWebSocketHandler and the connection loop that drives them.        *)
(*                                                                         *)
(* Scaling.  The program works on 16 kHz audio with a 30 s ring; the model *)
(* keeps the code's arithmetic and shrinks the quantities: one clock unit  *)
(* of the model carries SAMPLE_RATE samples, the ring holds                *)
(* SAMPLE_RATE * max_duration samples, and a sample is a small natural     *)
(* (its amplitude in the session model, its serial number in the buffer    *)
(* model).                                                                 *)
(***************************************************************************)
EXTENDS Integers, Sequences, FiniteSets, TLC

(***************************************************************************)
(* Scaled program quantities and model bounds.                             *)
(***************************************************************************)
SAMPLE_RATE == 1        \* samples per clock unit (websocket_handler.py:25, scaled)
CHUNK_SIZE == 1         \* samples per callback block (websocket_handler.py:27, scaled)
SILENCE_DURATION == 1   \* clock units of silence ending an utterance (line 29, scaled)
max_duration == 3       \* clock units held by the ring (line 37, scaled)
MaxSegment == 2         \* the literal 10.0 of _process_audio (line 196, scaled)
MaxBurst == 5           \* longest chunk handed to append in the buffer model
MaxOps == 4             \* operations per run of the buffer model

Capacity == SAMPLE_RATE * max_duration   \* len(self.data), line 40

Min(a, b) == IF a < b THEN a ELSE b
Max(a, b) == IF a > b THEN a ELSE b

MaxTime == 4            \* audio blocks delivered to the callback per run
MaxBlocks == 5          \* audio blocks delivered per run of the audio path alone
MaxMsgs == 2            \* inbound frames handled per run
MaxTurns == 2           \* turn pipelines started per run

Conns == {1, 2}         \* the websockets that may connect; 0 stands for None
None == "None"

VARIABLES
    audio_buffer,       \* self.audio_buffer: [data, start_idx, end_idx, is_recording]
    lastOp,             \* buffer and memory models: the last call and how it ended
    opCount,            \* buffer model: number of calls made
    stream,             \* self.stream: "unset" (no attribute), "none", "open"
    websocket,          \* self.websocket
    current_user_id,    \* self.current_user_id
    is_listening,       \* self.is_listening
    vad_threshold,      \* self.vad_threshold
    silence_start_time, \* self.silence_start_time
    llm_provider,       \* self.llm_provider
    now,                \* time.time(), in blocks delivered by the input stream
    conns,              \* per websocket: position of its connect() call, transport open
    pending,            \* _process_audio tasks created and not yet started
    turns,              \* the turn pipelines in flight, in start order, each with the
                        \* send_text / send_bytes calls it made, in call order
    notices,            \* send_text calls made outside a turn, in call order
    facts,              \* rows of the facts table, in id order
    vad_hist,           \* history: dispatches of the current utterance
    counts              \* history: inbound frames handled (msgs), those no
                        \* branch acted on (ignored), turns started (turns)

bufVars == <<audio_buffer, lastOp, opCount>>
handlerVars == <<stream, websocket, current_user_id, is_listening, vad_threshold,
                 silence_start_time, llm_provider>>
envVars == <<now, conns, pending, turns, notices, facts, vad_hist, counts>>
vars == <<bufVars, handlerVars, envVars>>

(***************************************************************************)
(* AudioBuffer                                                             *)
(***************************************************************************)

\* AudioBuffer.__post_init__: zeroed ring, both cursors 0, not recording.
AudioBufferInit ==
    [data |-> [i \in 0..(Capacity - 1) |-> 0],
     start_idx |-> 0, end_idx |-> 0, is_recording |-> FALSE]

\* numpy basic-slice assignment data[lo:hi] = rhs on a 1-d array: the target
\* has max(0, hi - lo) cells; rhs must have that many elements or exactly one
\* (broadcast), otherwise ValueError is raised and nothing is written.
SliceAssign(data, lo, hi, rhs) ==
    LET n == Max(0, hi - lo) IN
    IF Len(rhs) = n
    THEN [ok |-> TRUE,
          data |-> [i \in DOMAIN data |->
                      IF i >= lo /\ i < hi THEN rhs[i - lo + 1] ELSE data[i]]]
    ELSE IF Len(rhs) = 1
    THEN [ok |-> TRUE,
          data |-> [i \in DOMAIN data |->
                      IF i >= lo /\ i < hi THEN rhs[1] ELSE data[i]]]
    ELSE [ok |-> FALSE, data |-> data]

\* numpy slices chunk[:k] and chunk[k:] (k >= 0), clipped to the chunk.
ChunkUpTo(chunk, k) == SubSeq(chunk, 1, Min(k, Len(chunk)))
ChunkFrom(chunk, k) == SubSeq(chunk, Min(k, Len(chunk)) + 1, Len(chunk))

\* line 53: free space as the code computes it.
Available(b) == Capacity - ((b.end_idx - b.start_idx) % Capacity)

\* A variant of DiscardOld that forgets the wrap-around of the read cursor.
DiscardOld_NoWrap(start, n) == start + n

\* line 56: the read cursor after discarding n old samples.
DiscardOld(start, n) == (start + n) % Capacity

\* A variant of append that drops the chunk.
append_Dropping(b, chunk) == [raised |-> FALSE, buf |-> b]

\* AudioBuffer.append, lines 46-68.  Result: the buffer afterwards and whether
\* the call raised (the cursor moved at line 56 and the cells written at
\* line 65 stay moved and written when a later line raises).
append(b, chunk) ==
    LET chunk_size == Len(chunk)
        available == Available(b)
        b1 == IF available < chunk_size
              THEN [b EXCEPT !.start_idx = DiscardOld(b.start_idx, chunk_size - available)]
              ELSE b
        end == (b.end_idx + chunk_size) % Capacity
    IN
    IF chunk_size = 0 THEN [raised |-> FALSE, buf |-> b]
    ELSE IF end > b.end_idx
    THEN LET w == SliceAssign(b1.data, b.end_idx, end, chunk) IN
         IF w.ok
         THEN [raised |-> FALSE, buf |-> [b1 EXCEPT !.data = w.data, !.end_idx = end]]
         ELSE [raised |-> TRUE, buf |-> b1]
    ELSE LET remaining == Capacity - b.end_idx
             w1 == SliceAssign(b1.data, b.end_idx, Capacity, ChunkUpTo(chunk, remaining))
             w2 == SliceAssign(w1.data, 0, end, ChunkFrom(chunk, remaining))
         IN
         IF ~w1.ok THEN [raised |-> TRUE, buf |-> b1]
         ELSE IF ~w2.ok THEN [raised |-> TRUE, buf |-> [b1 EXCEPT !.data = w1.data]]
         ELSE [raised |-> FALSE, buf |-> [b1 EXCEPT !.data = w2.data, !.end_idx = end]]

\* data[lo:hi] as a sequence (empty when hi <= lo).
Slice(data, lo, hi) == [k \in 1..Max(0, hi - lo) |-> data[lo + k - 1]]

\* AudioBuffer.get_audio, lines 70-80, with the sample offsets already
\* converted (start_sample, end_sample are the int(...) values of lines 72-73;
\* Python's % with a positive modulus is never negative, like TLA+'s).
get_audio(b, start_sample, end_sample) ==
    LET s == (b.start_idx + start_sample) % Capacity
        e == (b.start_idx + end_sample) % Capacity
    IN
    IF e > s THEN Slice(b.data, s, e)
    ELSE Slice(b.data, s, Capacity) \o Slice(b.data, 0, e)

\* AudioBuffer.clear, lines 82-86 (the samples themselves are left in place).
clear(b) == [b EXCEPT !.start_idx = 0, !.end_idx = 0, !.is_recording = FALSE]

\* The unread window: its size and its samples from start_idx to end_idx.
WindowSize(b) == (b.end_idx - b.start_idx) % Capacity
Window(b) == [k \in 1..WindowSize(b) |-> b.data[(b.start_idx + k - 1) % Capacity]]

(***************************************************************************)
(* Texts and the memory store: MemoryStore (memory.py).  A text is the     *)
(* sequence of its characters, None is the one-element sequence NoneText;  *)
(* the facts table is the sequence of its rows in id order.                *)
(***************************************************************************)
ROW_LIMIT == 3          \* LIMIT 200 of the SELECT (memory.py line 56, scaled)
FALLBACK_MAX == 2       \* the 3 of min(limit, 3) (memory.py line 89, scaled)
PROMPT_FACTS == 2       \* limit=6 of build_messages (llm_utils.py line 36, scaled)
MaxRows == 4            \* rows written per run of the memory model
MaxLimit == 3           \* largest limit passed to get_top_facts

Owners == {"default", "u2"}

\* Python's None where a text is expected, and `text or ""`.
NoneText == <<None>>
OrEmpty(text) == IF text = NoneText THEN <<>> ELSE text

\* str.lower, letter by letter.
UpperCase == <<"A", "B", "C", "D", "E", "F", "G", "H", "I", "J", "K", "L", "M",
               "N", "O", "P", "Q", "R", "S", "T", "U", "V", "W", "X", "Y", "Z">>
LowerCase == <<"a", "b", "c", "d", "e", "f", "g", "h", "i", "j", "k", "l", "m",
               "n", "o", "p", "q", "r", "s", "t", "u", "v", "w", "x", "y", "z">>
Lower(ch) ==
    IF \E i \in DOMAIN UpperCase : UpperCase[i] = ch
    THEN LowerCase[CHOOSE i \in DOMAIN UpperCase : UpperCase[i] = ch]
    ELSE ch
lower(text) == [i \in DOMAIN text |-> Lower(text[i])]

\* A variant of strip that returns the text as it is.
strip_Identity(text) == text

\* str.strip: leading and trailing whitespace removed.
IsSpace(ch) == ch \in {" ", "\n"}
RECURSIVE LStrip(_)
LStrip(text) ==
    IF Len(text) > 0 /\ IsSpace(text[1]) THEN LStrip(Tail(text)) ELSE text
RECURSIVE RStrip(_)
RStrip(text) ==
    IF Len(text) > 0 /\ IsSpace(text[Len(text)])
    THEN RStrip(SubSeq(text, 1, Len(text) - 1)) ELSE text
strip(text) == RStrip(LStrip(text))

\* line 98: the characters that continue a token (isalnum or an accented
\* letter); of the characters used here, all but the blank, the newline and
\* the punctuation marks.
IsTokenChar(ch) == ch \notin {" ", "\n", ".", "!", "?", "-", ":"}

\* _tokenize, lines 94-106: the maximal runs of token characters, in order.
RECURSIVE TokenizeFrom(_, _, _, _)
TokenizeFrom(text, i, cur, buff) ==
    IF i > Len(text)
    THEN IF Len(cur) > 0 THEN Append(buff, cur) ELSE buff
    ELSE IF IsTokenChar(text[i])
    THEN TokenizeFrom(text, i + 1, Append(cur, text[i]), buff)
    ELSE TokenizeFrom(text, i + 1, <<>>,
                      IF Len(cur) > 0 THEN Append(buff, cur) ELSE buff)
_tokenize(text) == TokenizeFrom(text, 1, <<>>, <<>>)

\* needle in hay, for Python strings.
Contains(hay, needle) ==
    \E i \in 0..(Len(hay) - Len(needle)) :
        SubSeq(hay, i + 1, i + Len(needle)) = needle

Reverse(seq) == [k \in 1..Len(seq) |-> seq[Len(seq) - k + 1]]

\* A variant of add_fact that keeps one row per owner (the new row replaces
\* the owner's earlier rows).
add_fact_Upsert(rows, user_id, fact, db_ok) ==
    LET fact_clean == strip(OrEmpty(fact)) IN
    IF Len(fact_clean) = 0 THEN [raised |-> FALSE, rows |-> rows]
    ELSE IF ~db_ok THEN [raised |-> TRUE, rows |-> rows]
    ELSE [raised |-> FALSE,
          rows |-> Append(SelectSeq(rows, LAMBDA r : r.user_id # user_id),
                          [id |-> Len(rows) + 1, user_id |-> user_id,
                           fact |-> fact_clean, created_at |-> Len(rows) + 1])]

\* add_fact, lines 38-48: whether the call raised and the table afterwards.
\* db_ok is whether sqlite serves the call (_connect and the INSERT); a
\* failed call leaves the table as it was.  id is the AUTOINCREMENT key of
\* line 29 (rows are never deleted, so one more than the rows written);
\* created_at is the clock read at line 43, here one tick per row written.
add_fact(rows, user_id, fact, db_ok) ==
    LET fact_clean == strip(OrEmpty(fact)) IN
    IF Len(fact_clean) = 0 THEN [raised |-> FALSE, rows |-> rows]
    ELSE IF ~db_ok THEN [raised |-> TRUE, rows |-> rows]
    ELSE [raised |-> FALSE,
          rows |-> Append(rows, [id |-> Len(rows) + 1, user_id |-> user_id,
                                 fact |-> fact_clean, created_at |-> Len(rows) + 1])]

\* A variant of SelectRows without the WHERE clause of line 56.
SelectRows_AnyOwner(rows, user_id) ==
    LET mine == Reverse(rows) IN
    [k \in 1..Min(ROW_LIMIT, Len(mine)) |-> mine[k].fact]

\* lines 54-58: the owner's facts, newest first, at most ROW_LIMIT of them.
SelectRows(rows, user_id) ==
    LET mine == Reverse(SelectSeq(rows, LAMBDA r : r.user_id = user_id)) IN
    [k \in 1..Min(ROW_LIMIT, Len(mine)) |-> mine[k].fact]

\* lines 51-52: the query's tokens of length >= 3.
QueryTokens(query) ==
    SelectSeq(_tokenize(lower(strip(OrEmpty(query)))), LAMBDA t : Len(t) >= 3)

\* lines 62-66: one point per token (repeated tokens count again) found in
\* the lower-cased fact.
Score(fact, tokens) ==
    Cardinality({i \in DOMAIN tokens : Contains(lower(fact), tokens[i])})

\* A variant of SortByScore that leaves the facts in scan order.
SortByScore_Unsorted(scored, s) == scored

\* line 70: list.sort on the score, descending; the sort is stable.
RECURSIVE SortByScore(_, _)
SortByScore(scored, s) ==
    IF s = 0 THEN <<>>
    ELSE SelectSeq(scored, LAMBDA x : x.score = s) \o SortByScore(scored, s - 1)

\* lines 71-79: the loop over the scored facts.
RECURSIVE ScoredLoop(_, _, _, _)
ScoredLoop(scored, i, out, limit) ==
    IF i > Len(scored) THEN out
    ELSE IF \E k \in DOMAIN out : out[k] = scored[i].fact
    THEN ScoredLoop(scored, i + 1, out, limit)
    ELSE LET out1 == Append(out, scored[i].fact) IN
         IF Len(out1) >= limit THEN out1
         ELSE ScoredLoop(scored, i + 1, out1, limit)

\* lines 84-90: the loop over the rows when nothing scored (seen is empty).
RECURSIVE FallbackLoop(_, _, _, _)
FallbackLoop(rows, i, out2, limit) ==
    IF i > Len(rows) THEN out2
    ELSE LET out3 == Append(out2, rows[i]) IN
         IF Len(out3) >= Min(limit, FALLBACK_MAX) THEN out3
         ELSE FallbackLoop(rows, i + 1, out3, limit)

\* get_top_facts, lines 50-91: whether the call raised, the list returned and
\* the path it came from.  Nothing in the method catches a failure of
\* _connect or of the SELECT (db_ok FALSE), so the exception leaves it.
get_top_facts(rows, user_id, query, limit, db_ok) ==
    LET tokens == QueryTokens(query)
        mine == SelectRows(rows, user_id)
        all == [k \in DOMAIN mine |-> [score |-> Score(mine[k], tokens), fact |-> mine[k]]]
        scored == SortByScore(SelectSeq(all, LAMBDA x : x.score > 0), Len(tokens))
        out == ScoredLoop(scored, 1, <<>>, limit)
    IN
    IF ~db_ok THEN [raised |-> TRUE, path |-> "none", facts |-> <<>>]
    ELSE IF Len(out) > 0 THEN [raised |-> FALSE, path |-> "scored", facts |-> out]
    ELSE [raised |-> FALSE, path |-> "fallback",
          facts |-> FallbackLoop(mine, 1, <<>>, limit)]

\* llm_utils.py line 42: the text between the system prompt and the bullets
\* (the line "Memorias relevantes sobre o usuario:" is one element).
MemoryIntro == <<"\n", "\n", "Memorias relevantes sobre o usuario:", "\n">>

\* llm_utils.py line 37: "\n".join(f"- {f}" for f in facts).
RECURSIVE JoinBullets(_)
JoinBullets(fs) ==
    IF Len(fs) = 0 THEN <<>>
    ELSE IF Len(fs) = 1 THEN <<"-", " ">> \o fs[1]
    ELSE <<"-", " ">> \o fs[1] \o <<"\n">> \o JoinBullets(Tail(fs))

\* A variant of build_messages without the try / except of lines 34 and 48.
build_messages_NoExcept(rows, user_id, user_text, system_prompt, db_ok) ==
    LET r == get_top_facts(rows, user_id, user_text, PROMPT_FACTS, db_ok)
        memory_block == JoinBullets(r.facts)
    IN [raised |-> r.raised,
        messages |->
            <<[role |-> "system",
               content |-> IF Len(strip(memory_block)) > 0
                           THEN system_prompt \o MemoryIntro \o memory_block
                           ELSE system_prompt],
              [role |-> "user", content |-> user_text]>>]

\* build_messages, llm_utils.py lines 32-54: whether the call raised and the
\* two messages returned; a failure of get_top_facts is caught at line 48.
build_messages(rows, user_id, user_text, system_prompt, db_ok) ==
    LET r == get_top_facts(rows, user_id, user_text, PROMPT_FACTS, db_ok)
        memory_block == IF r.raised THEN <<>> ELSE JoinBullets(r.facts)
    IN [raised |-> FALSE,
        messages |->
            <<[role |-> "system",
               content |-> IF Len(strip(memory_block)) > 0
                           THEN system_prompt \o MemoryIntro \o memory_block
                           ELSE system_prompt],
              [role |-> "user", content |-> user_text]>>]

(***************************************************************************)
(* Utterances, fact extraction and the collaborators' outcomes             *)
(***************************************************************************)

\* The texts a client types or the transcription engine returns.
SessionTexts == {"eu moro em sp.", "bom dia"}

\* The characters of a session text.
Utterance(name) ==
    CASE name = "eu moro em sp." ->
           <<"e", "u", " ", "m", "o", "r", "o", " ", "e", "m", " ", "s", "p", ".">>
      [] name = "bom dia" -> <<"b", "o", "m", " ", "d", "i", "a">>
      [] OTHER -> <<>>

\* str.startswith and str.endswith with a tuple of one-character suffixes.
StartsWith(text, prefix) ==
    Len(text) >= Len(prefix) /\ SubSeq(text, 1, Len(prefix)) = prefix
EndsWithAny(text, chars) == Len(text) > 0 /\ text[Len(text)] \in chars

\* len(t.split()): the maximal runs of non-whitespace characters.
WordCount(text) ==
    Cardinality({i \in DOMAIN text :
                    ~IsSpace(text[i]) /\ (i = 1 \/ IsSpace(text[i - 1]))})

\* llm_utils.py lines 64-85 and 92-100: the prefixes, of which the model
\* keeps "eu moro em ", "eu sou " and "por que ", "onde fica ".
prefixes ==
    {<<"e", "u", " ", "m", "o", "r", "o", " ", "e", "m", " ">>,
     <<"e", "u", " ", "s", "o", "u", " ">>}
question_prefixes ==
    {<<"p", "o", "r", " ", "q", "u", "e", " ">>,
     <<"o", "n", "d", "e", " ", "f", "i", "c", "a", " ">>}

MAX_FACT_WORDS == 3     \* the 15 of len(t.split()) <= 15 (llm_utils.py line 106, scaled)

\* A variant of maybe_extract_fact that never finds a fact.
maybe_extract_fact_Never(user_text) == NoneText

\* A variant of maybe_extract_fact that tests for a short statement before
\* it tests for a question.
maybe_extract_fact_QuestionLast(user_text) ==
    LET t == strip(user_text) IN
    IF Len(t) = 0 THEN NoneText
    ELSE IF \E p \in prefixes : StartsWith(lower(t), p) THEN t
    ELSE IF WordCount(t) <= MAX_FACT_WORDS /\ EndsWithAny(t, {".", "!", "?"}) THEN t
    ELSE NoneText

\* maybe_extract_fact, llm_utils.py lines 57-109: the stripped text or None.
maybe_extract_fact(user_text) ==
    LET t == strip(user_text) IN
    IF Len(t) = 0 THEN NoneText
    ELSE IF \E p \in prefixes : StartsWith(lower(t), p) THEN t
    ELSE IF \E p \in question_prefixes : StartsWith(lower(t), p) THEN NoneText
    ELSE IF WordCount(t) <= MAX_FACT_WORDS /\ EndsWithAny(t, {".", "!", "?"}) THEN t
    ELSE NoneText

\* self.system_prompt (settings.system_prompt, main.py line 43): "S".
SystemPrompt == <<"S">>

VAD_THRESHOLD == 1      \* self.vad_threshold = 0.5 (line 108), in amplitude units of 0.5
Amplitudes == {0, 2}    \* a block of silence, a block at full scale
Thresholds == {1, 2}    \* values an audio_config frame may carry

(***************************************************************************)
(* Session model: VTuberWebSocketHandler.  main.py builds ONE handler      *)
(* (ws_handler, line 99) and the /ws endpoint calls ws_handler.connect for *)
(* every websocket, so all connections run on the same handler fields.     *)
(*                                                                         *)
(* A coroutine gives way to the others only at an await.  Each action      *)
(* below is the code from one resumption up to the next await, with the    *)
(* send that the await is for done at the end of the action (the transport *)
(* self.websocket is read when the send is called).                        *)
(*                                                                         *)
(* __init__ never assigns self.stream.  InitSession therefore starts with  *)
(* the attribute missing ("unset"), where connect ends in AttributeError   *)
(* before its loop, or with the attribute set to None by the code that     *)
(* builds the handler, from which the loop and the pipelines run.          *)
(***************************************************************************)

\* VTuberWebSocketHandler.__init__, lines 92-110.
HandlerInit ==
    /\ audio_buffer = AudioBufferInit
    /\ websocket = 0
    /\ current_user_id = "default"
    /\ is_listening = FALSE
    /\ vad_threshold = VAD_THRESHOLD
    /\ silence_start_time = <<>>      \* None; <<t>> once set

EnvInit ==
    /\ now = 0
    /\ conns = [c \in Conns |-> [pc |-> "new", open |-> FALSE]]
    /\ pending = 0
    /\ turns = <<>>
    /\ notices = <<>>
    /\ facts = <<>>
    /\ vad_hist = [eos |-> 0, dispatched |-> FALSE, idle_after |-> FALSE,
                   voiced_at |-> 0, silent_at |-> <<>>, resumed |-> FALSE,
                   tasks |-> <<>>, ran |-> <<>>]
    /\ counts = [msgs |-> 0, turns |-> 0, ignored |-> 0]

InitSession ==
    /\ HandlerInit
    /\ EnvInit
    /\ stream \in {"unset", "none"}
    /\ llm_provider \in {"ollama", "openai"}
    /\ lastOp = [op |-> "none", chunk |-> <<>>, raised |-> FALSE, before |-> AudioBufferInit,
                written |-> <<>>, fits |-> TRUE]
    /\ opCount = 0

\* A variant of Escapes without the try / except around the transport call.
Escapes_Uncaught(ok) == ~ok

\* Whether the exception of a failed send_text / send_bytes leaves
\* _send_message or _send_audio: the excepts of lines 338 and 358 log it.
Escapes(ok) == FALSE

\* self.websocket.send_text / send_bytes inside _send_message, _send_error and
\* _send_audio (lines 333-359): nothing is sent when self.websocket is None;
\* a send on a closed transport raises (ok is FALSE) and the exception is
\* swallowed; _send_error has its own try around _send_message (lines
\* 343-349).  The result is the sequence of calls made: none or one.
Send(type) ==
    IF websocket = 0 THEN <<>>
    ELSE LET ok == conns[websocket].open IN
         <<[type |-> type, conn |-> websocket, ok |-> ok,
            raised |-> (type # "error" /\ Escapes(ok))]>>

\* One delivery step inside the try of a pipeline: the send is made and the
\* pipeline goes on to next; an exception leaving the send would reach the
\* except of lines 251 / 300, whose _send_error ends the turn.
Deliver(out, type, next) ==
    LET s == Send(type) IN
    IF \E k \in DOMAIN s : s[k].raised
    THEN [pc |-> "fin", out |-> out \o s \o Send("error")]
    ELSE [pc |-> next, out |-> out \o s]

\* cleanup, lines 407-415, when self.stream exists.
Cleanup ==
    /\ stream' = "none"
    /\ audio_buffer' = clear(audio_buffer)
    /\ is_listening' = FALSE

(*  connect, lines 112-145  *)

\* lines 114-116: take over the handler's transport and user id, accept.
Connect(c) ==
    /\ conns[c].pc = "new"
    /\ websocket' = c
    /\ current_user_id' = "default"
    /\ conns' = [conns EXCEPT ![c] = [pc |-> "accepted", open |-> TRUE]]
    /\ UNCHANGED <<bufVars, stream, is_listening, vad_threshold,
                   silence_start_time, llm_provider, now, pending, turns, notices,
                   facts, vad_hist, counts>>

\* line 120, _start_audio_stream (lines 142-185).  With self.stream missing
\* line 144 raises AttributeError; connect logs it (line 137) and cleanup
\* raises the same error at line 409, which leaves connect.
StartStream(c) ==
    /\ conns[c].pc = "accepted"
    /\ IF stream = "unset"
       THEN /\ conns' = [conns EXCEPT ![c].pc = "raised"]
            /\ UNCHANGED stream
       ELSE /\ conns' = [conns EXCEPT ![c].pc = "loop"]
            /\ stream' = "open"
    /\ UNCHANGED <<bufVars, websocket, current_user_id, is_listening, vad_threshold,
                   silence_start_time, llm_provider, now, pending,
                   turns, notices, facts, vad_hist, counts>>

\* The client closes its websocket.
ClientClose(c) ==
    /\ conns[c].pc \in {"accepted", "loop", "turn"}
    /\ conns[c].open
    /\ conns' = [conns EXCEPT ![c].open = FALSE]
    /\ UNCHANGED <<bufVars, handlerVars, now, pending, turns, notices, facts,
                   vad_hist, counts>>

\* The task running connect is cancelled while it awaits receive_text (server
\* shutdown): CancelledError is no Exception, passes lines 131-138 and the
\* finally of line 139 runs cleanup.
ConnectEnds(c) ==
    /\ conns[c].pc = "loop"
    /\ Cleanup
    /\ conns' = [conns EXCEPT ![c].pc = "ended"]
    /\ UNCHANGED <<lastOp, opCount, websocket, current_user_id, vad_threshold,
                   silence_start_time, llm_provider, now, pending,
                   turns, notices, facts, vad_hist, counts>>

(*  _handle_message, lines 307-331, one action per kind of frame  *)

\* A variant of Receiving in which each frame is handled in a task of its
\* own, the loop receiving the next frame at once.
Receiving_Detached(c) ==
    /\ conns[c].pc \in {"loop", "turn"}
    /\ conns[c].open
    /\ counts.msgs < MaxMsgs

\* lines 122-127: the loop awaits receive_text and then awaits
\* _handle_message: a frame is received only while no call of
\* _handle_message is running for this connection.
Receiving(c) ==
    /\ conns[c].pc = "loop"
    /\ conns[c].open
    /\ counts.msgs < MaxMsgs

Received == counts' = [counts EXCEPT !.msgs = @ + 1]

\* lines 311-317: start_listening / stop_listening.
RecvListening(c, on) ==
    /\ Receiving(c)
    /\ is_listening' = on
    /\ notices' = notices \o Send("status")
    /\ Received
    /\ UNCHANGED <<bufVars, stream, websocket, current_user_id, vad_threshold,
                   silence_start_time, llm_provider, now, conns,
                   pending, turns, facts, vad_hist>>

\* lines 325-328: audio_config carrying vad_threshold.
RecvAudioConfig(c, thr) ==
    /\ Receiving(c)
    /\ vad_threshold' = thr
    /\ Received
    /\ UNCHANGED <<bufVars, stream, websocket, current_user_id, is_listening,
                   silence_start_time, llm_provider, now, conns,
                   pending, turns, notices, facts, vad_hist>>

\* lines 330-331: ping.
RecvPing(c) ==
    /\ Receiving(c)
    /\ notices' = notices \o Send("pong")
    /\ Received
    /\ UNCHANGED <<bufVars, handlerVars, now, conns, pending, turns, facts, vad_hist>>

\* A variant of RecvIgnored in which a hello frame sets the session's user
\* id to the one it carries.
RecvIgnored_Hello(c) ==
    /\ Receiving(c)
    /\ counts' = [counts EXCEPT !.msgs = @ + 1, !.ignored = @ + 1]
    /\ current_user_id' = "u2"
    /\ UNCHANGED <<bufVars, stream, websocket, is_listening, vad_threshold,
                   silence_start_time, llm_provider, now, conns, pending, turns,
                   notices, facts, vad_hist>>

\* A frame whose type is unknown or missing (hello included): no branch of
\* _handle_message acts and the call returns.  (A text frame whose text is
\* blank after strip, line 322, ends the same way.)
RecvIgnored(c) ==
    /\ Receiving(c)
    /\ counts' = [counts EXCEPT !.msgs = @ + 1, !.ignored = @ + 1]
    /\ UNCHANGED <<bufVars, handlerVars, now, conns, pending, turns, notices, facts,
                   vad_hist>>

\* A variant of RecvBadJson that drops the frame without a notice.
RecvBadJson_Silent(c) ==
    /\ Receiving(c)
    /\ Received
    /\ UNCHANGED <<bufVars, handlerVars, now, conns, pending, turns, notices, facts,
                   vad_hist>>

\* lines 128-130: json.loads raises JSONDecodeError.
RecvBadJson(c) ==
    /\ Receiving(c)
    /\ notices' = notices \o Send("error")
    /\ Received
    /\ UNCHANGED <<bufVars, handlerVars, now, conns, pending, turns, facts, vad_hist>>

\* receive_text on a closed websocket raises WebSocketDisconnect, which is an
\* Exception raised inside the try of line 124: the except of line 131 takes
\* it, sends an error notice and the loop goes on (the except of line 135 is
\* never reached from the loop).
RecvDisconnect(c) ==
    /\ conns[c].pc = "loop"
    /\ ~conns[c].open
    /\ counts.msgs < MaxMsgs
    /\ notices' = notices \o Send("error")
    /\ Received
    /\ UNCHANGED <<bufVars, handlerVars, now, conns, pending, turns, facts, vad_hist>>

(*  the turn pipelines  *)

\* The type of the frame that carries the transcript echo and the reply text.
EchoType(kind) == IF kind = "text" THEN "transcription" ELSE "user_speech"
ReplyType(kind) == IF kind = "text" THEN "response" ELSE "assistant_text"

\* A variant of FrameAt that sends the audio frame ahead of the reply text.
FrameAt_AudioFirst(step, kind) ==
    CASE step = "echo" -> EchoType(kind)
      [] step = "reply" -> "audio"
      [] step = "audio" -> ReplyType(kind)

\* The frame each delivery step of a pipeline sends: the echo (lines 224-229,
\* 267-270), then the reply text (lines 240-243, 289-292), then the binary
\* audio frame (lines 249, 298).
FrameAt(step, kind) ==
    CASE step = "echo" -> EchoType(kind)
      [] step = "reply" -> ReplyType(kind)
      [] step = "audio" -> "audio"

\* The completion engine a turn calls: lines 274-277 for a typed-text turn,
\* line 232 for an audio turn.
Engine(kind) ==
    IF kind = "text" /\ llm_provider = "openai" THEN "openai" ELSE "ollama"

\* A turn that has sent its transcript echo and awaits the completion engine
\* (build_messages and the request follow the echo, lines 232, 275, 277).
\* prompt is the system content build_messages returned for the turn's text
\* under the current user id, and rows_read how many rows the table held
\* then; a turn whose transcription raised (text None) never builds a
\* prompt.  sqlite serves the read here: a refused read changes nothing in
\* the pipeline but the prompt (build_messages catches it, llm_utils.py
\* line 48), and is a case of the memory model.
NewTurn(kind, c, text) ==
    [kind |-> kind, conn |-> c, pc |-> "llm", text |-> text, reply |-> None,
     engine |-> Engine(kind), llm_failed |-> FALSE, add_failed |-> FALSE, tts |-> None,
     out |-> <<>>,
     user_id |-> current_user_id,
     rows_read |-> Len(facts),
     prompt |-> IF text = None THEN <<>>
                ELSE build_messages(facts, current_user_id, Utterance(text),
                                    SystemPrompt, TRUE).messages[1].content]

\* lines 319-323 and _process_text_message lines 263-270: a non-blank text
\* frame starts a typed-text turn inside the message loop; the transcript
\* echo is sent.
RecvText(c, text) ==
    /\ Receiving(c)
    /\ counts.turns < MaxTurns
    /\ turns' = Append(turns,
          LET d == Deliver(<<>>, FrameAt("echo", "text"), "llm") IN
          [NewTurn("text", c, text) EXCEPT !.pc = d.pc, !.out = d.out])
    /\ conns' = [conns EXCEPT ![c].pc = "turn"]
    /\ counts' = [counts EXCEPT !.msgs = @ + 1, !.turns = @ + 1]
    /\ UNCHANGED <<bufVars, handlerVars, now, pending, notices, facts, vad_hist>>

\* lines 196-200: the segment handed to the transcription engine.
\* audio_duration = min(10.0, (end_idx - start_idx) / SAMPLE_RATE) is not
\* reduced modulo the capacity, so it is negative for a wrapped window, and
\* get_audio converts it back to a sample offset.
Segment(b) ==
    get_audio(b, 0, Min(MaxSegment * SAMPLE_RATE, b.end_idx - b.start_idx))

\* _process_audio, lines 187-229 and 251-259, from the start of the task to
\* its first await.  transcribe is a plain call: it returns a text, returns
\* blank text or raises.  The turn is entered under the transport that is
\* current when the task starts.
StartAudio ==
    /\ pending > 0
    /\ pending' = pending - 1
    /\ IF ~audio_buffer.is_recording
       THEN UNCHANGED <<audio_buffer, turns, counts>>
       ELSE LET b == [audio_buffer EXCEPT !.is_recording = FALSE] IN
            IF Len(Segment(b)) = 0
            THEN /\ audio_buffer' = clear(b)
                 /\ UNCHANGED <<turns, counts>>
            ELSE \/ /\ audio_buffer' = clear(b)          \* blank transcription
                    /\ UNCHANGED <<turns, counts>>
                 \/ /\ counts.turns < MaxTurns           \* transcribe raises
                    /\ audio_buffer' = b
                    /\ turns' = Append(turns,
                          [NewTurn("audio", websocket, None) EXCEPT
                              !.pc = "fin", !.out = Send("error")])
                    /\ counts' = [counts EXCEPT !.turns = @ + 1]
                 \/ /\ counts.turns < MaxTurns           \* a text is heard
                    /\ audio_buffer' = b
                    /\ \E text \in SessionTexts :
                         LET d == Deliver(<<>>, FrameAt("echo", "audio"), "llm") IN
                         turns' = Append(turns,
                            [NewTurn("audio", websocket, text) EXCEPT
                                !.pc = d.pc, !.out = d.out])
                    /\ counts' = [counts EXCEPT !.turns = @ + 1]
    /\ vad_hist' = [vad_hist EXCEPT
                       !.tasks = Tail(@),
                       !.ran = IF audio_buffer.is_recording
                               THEN Append(@, vad_hist.tasks[1]) ELSE @]
    /\ UNCHANGED <<lastOp, opCount, handlerVars, now, conns, notices, facts>>

\* A variant of OnLLMFailure in which every turn falls back to a canned reply.
OnLLMFailure_AlwaysFallback(kind) == "fallback"

\* What follows an exception of the completion engine: the typed-text turn
\* goes on with a canned reply (lines 278-281; every string of
\* _generate_fallback_response is non-empty), the audio turn is abandoned
\* (the except of line 251).
OnLLMFailure(kind) == IF kind = "text" THEN "fallback" ELSE "abort"

\* The step after the completion: fact extraction and write (lines 234-237,
\* 283-286), then the reply text (lines 240-243, 289-292).  add_fact may
\* raise; the exception reaches the except of lines 251 / 300 and an error
\* notice is sent in place of the reply.
AfterCompletion(t, reply, failed) ==
    LET fact == maybe_extract_fact(Utterance(turns[t].text))
        d == Deliver(turns[t].out, FrameAt("reply", turns[t].kind), "reply")
    IN
    \E db_ok \in BOOLEAN :
        LET w == IF fact = NoneText THEN [raised |-> FALSE, rows |-> facts]
                 ELSE add_fact(facts, current_user_id, fact, db_ok)
        IN
        /\ facts' = w.rows
        /\ turns' = IF w.raised
                    THEN [turns EXCEPT ![t].pc = "fin", ![t].reply = reply,
                                       ![t].llm_failed = failed, ![t].add_failed = TRUE,
                                       ![t].out = @ \o Send("error")]
                    ELSE [turns EXCEPT ![t].pc = d.pc, ![t].reply = reply,
                                       ![t].llm_failed = failed,
                                       ![t].out = d.out]

\* The engine answers with a text.
LLMReplies(t) ==
    /\ turns[t].pc = "llm"
    /\ AfterCompletion(t, "text", FALSE)
    /\ UNCHANGED <<bufVars, handlerVars, now, conns, pending, notices, vad_hist,
                   counts>>

\* The engine raises (ollama_chat lines 27-29, openai_chat).
LLMFails(t) ==
    /\ turns[t].pc = "llm"
    /\ IF OnLLMFailure(turns[t].kind) = "fallback"
       THEN AfterCompletion(t, "fallback", TRUE)
       ELSE /\ turns' = [turns EXCEPT ![t].pc = "fin", ![t].llm_failed = TRUE,
                                      ![t].out = @ \o Send("error")]
            /\ facts' = facts
    /\ UNCHANGED <<bufVars, handlerVars, now, conns, pending, notices, vad_hist,
                   counts>>

\* TTSEngine.synthesize on a non-blank text, tts.py lines 63-90, by outcome:
\* "audio" for a cache hit or a successful run; "failed" when the engine
\* fails inside the try (lines 88-90: one second of zeros is returned);
\* "raised" when reading the cached file raises (line 72).
SynthOutcomes == {"audio", "failed", "raised"}

\* What the pipeline does with an outcome of synthesize: the samples of a
\* returned TTSResult are sent as a binary frame (lines 246-249, 295-298; a
\* failure inside synthesize returns a TTSResult like any other), an
\* exception reaches the except of lines 251 / 300.
AfterSynth(outcome) == IF outcome = "raised" THEN "error" ELSE "frame"

\* The reply text has been sent: synthesis and the audio frame.
Synthesize(t, outcome) ==
    /\ turns[t].pc = "reply"
    /\ turns' = [turns EXCEPT ![t].pc = "fin", ![t].tts = outcome,
                              ![t].out =
                                 IF AfterSynth(outcome) = "frame"
                                 THEN Deliver(@, FrameAt("audio", turns[t].kind), "fin").out
                                 ELSE @ \o Send("error")]
    /\ UNCHANGED <<bufVars, handlerVars, now, conns, pending, notices, facts,
                   vad_hist, counts>>

\* turns without its t-th element.
Without(seq, t) == [k \in 1..(Len(seq) - 1) |-> IF k < t THEN seq[k] ELSE seq[k + 1]]

\* The last send has returned and the turn is over: it leaves turns.  An
\* audio turn clears the buffer (finally, lines 257-259); a typed-text turn
\* returns to the message loop.
Finish(t) ==
    /\ turns[t].pc = "fin"
    /\ turns' = Without(turns, t)
    /\ IF turns[t].kind = "audio"
       THEN /\ audio_buffer' = clear(audio_buffer)
            /\ UNCHANGED conns
       ELSE /\ conns' = [conns EXCEPT ![turns[t].conn].pc = "loop"]
            /\ UNCHANGED audio_buffer
    /\ UNCHANGED <<lastOp, opCount, handlerVars, now, pending, notices, facts,
                   vad_hist, counts>>

(*  audio_callback, lines 147-174  *)

SumSq(chunk) == IF Len(chunk) = 0 THEN 0 ELSE Len(chunk) * chunk[1] * chunk[1]

\* lines 156-157: volume_norm = norm(chunk) / sqrt(len(chunk)) > vad_threshold,
\* compared on the squares (all quantities are non-negative).
IsSpeaking(chunk, thr) == SumSq(chunk) > thr * thr * Len(chunk)

\* A variant of SilenceElapsed in which any unvoiced block ends the speech.
SilenceElapsed_AtOnce(current_time, silence_start) == TRUE

\* line 172: the silence has lasted long enough.
SilenceElapsed(current_time, silence_start) ==
    current_time - silence_start >= SILENCE_DURATION

\* One block from the input stream, all of its samples at amplitude amp, the
\* stream delivering at most `blocks` blocks.  The stream delivers a block
\* every CHUNK_SIZE / SAMPLE_RATE seconds, one clock unit, and time.time()
\* (line 159) is read as that block time.  asyncio.create_task (line 174) is
\* counted in pending; the callback is taken to run where the event loop
\* runs, so that the task is created.  vad_hist records, apart from the
\* handler's own fields: the time of the most recent voiced block
\* (voiced_at), whether it arrived while the silence timer was running
\* (resumed), the time of the first unvoiced block after it (silent_at), and
\* for every task created the voiced_at of its silence period (tasks).
audio_callback(amp, blocks) ==
    /\ stream = "open"
    /\ now < blocks
    /\ now' = now + (CHUNK_SIZE \div SAMPLE_RATE)
    /\ LET chunk == [k \in 1..CHUNK_SIZE |-> amp]
           r == append(audio_buffer, chunk)
           is_speaking == IsSpeaking(chunk, vad_threshold)
           silence_start == IF silence_start_time = <<>> THEN now'
                            ELSE silence_start_time[1]
           dispatch == /\ ~is_speaking
                       /\ r.buf.is_recording
                       /\ SilenceElapsed(now', silence_start)
       IN
       IF is_speaking
       THEN /\ silence_start_time' = <<>>
            /\ audio_buffer' = [r.buf EXCEPT !.is_recording = TRUE]
            /\ pending' = pending
            /\ vad_hist' = [vad_hist EXCEPT
                               !.eos = 0, !.dispatched = FALSE,
                               !.idle_after = FALSE,
                               !.voiced_at = now', !.silent_at = <<>>,
                               !.resumed = silence_start_time # <<>>]
       ELSE /\ audio_buffer' = r.buf
            /\ silence_start_time' = IF r.buf.is_recording THEN <<silence_start>>
                                     ELSE silence_start_time
            /\ pending' = IF dispatch THEN pending + 1 ELSE pending
            /\ vad_hist' = [vad_hist EXCEPT
                               !.eos = IF dispatch THEN @ + 1 ELSE @,
                               !.dispatched = dispatch,
                               !.idle_after = /\ WindowSize(r.buf) = 0
                                              /\ ~r.buf.is_recording,
                               !.silent_at = IF vad_hist.voiced_at # 0 /\ @ = <<>>
                                             THEN <<now'>> ELSE @,
                               !.tasks = IF dispatch
                                         THEN Append(@, vad_hist.voiced_at) ELSE @]
    /\ UNCHANGED <<lastOp, opCount, stream, websocket, current_user_id, is_listening,
                   vad_threshold, llm_provider, conns, turns, notices, facts, counts>>

\* The callback of a session whose stream delivers MaxTime blocks.
AudioCallback(amp) == audio_callback(amp, MaxTime)

\* One session: the websocket that connects first, its frames, its turns and
\* the audio callback.
Session == {1}

\* connect() up to and after its message loop.
ConnectionStep ==
    \/ \E c \in Session : Connect(c)
    \/ \E c \in Session : StartStream(c)
    \/ \E c \in Session : ClientClose(c)
    \/ \E c \in Session : ConnectEnds(c)

\* The frames of _handle_message that start no turn.
ControlStep ==
    \/ \E c \in Session, on \in BOOLEAN : RecvListening(c, on)
    \/ \E c \in Session, thr \in Thresholds : RecvAudioConfig(c, thr)
    \/ \E c \in Session : RecvPing(c)
    \/ \E c \in Session : RecvIgnored(c)
    \/ \E c \in Session : RecvBadJson(c)
    \/ \E c \in Session : RecvDisconnect(c)

\* The steps of a turn pipeline after its start.
PipelineStep ==
    \/ \E t \in DOMAIN turns : LLMReplies(t)
    \/ \E t \in DOMAIN turns : LLMFails(t)
    \/ \E t \in DOMAIN turns, o \in SynthOutcomes : Synthesize(t, o)
    \/ \E t \in DOMAIN turns : Finish(t)

\* The audio callback and the task it creates.
AudioStep ==
    \/ \E amp \in Amplitudes : AudioCallback(amp)
    \/ StartAudio

Next ==
    \/ ConnectionStep
    \/ \E c \in Session, text \in SessionTexts : RecvText(c, text)
    \/ PipelineStep
    \/ AudioStep

Spec == InitSession /\ [][Next]_vars

\* The session with its control frames.
NextLoop == Next \/ ControlStep

SpecLoop == InitSession /\ [][NextLoop]_vars

\* Several websockets on the one handler of main.py, typing text.
NextShared ==
    \/ \E c \in Conns : Connect(c)
    \/ \E c \in Conns : StartStream(c)
    \/ \E c \in Conns : ClientClose(c)
    \/ \E c \in Conns : ConnectEnds(c)
    \/ \E c \in Conns, text \in SessionTexts : RecvText(c, text)
    \/ PipelineStep

SpecShared == InitSession /\ [][NextShared]_vars

\* The message loop on its control frames, with the audio callback filling
\* the buffer and no turn started.
NextControl ==
    \/ ConnectionStep
    \/ ControlStep
    \/ \E amp \in Amplitudes : AudioCallback(amp)

SpecControl == InitSession /\ [][NextControl]_vars

\* The audio path alone, over a stream that delivers MaxBlocks blocks: the
\* callback, the tasks it creates and their turns, with no typed text.
NextVad ==
    \/ ConnectionStep
    \/ PipelineStep
    \/ \E amp \in Amplitudes : audio_callback(amp, MaxBlocks)
    \/ StartAudio

SpecVad == InitSession /\ [][NextVad]_vars

\* The message loop alone: control frames and typed-text turns, no audio.
NextTyped ==
    \/ ConnectionStep
    \/ ControlStep
    \/ \E c \in Session, text \in SessionTexts : RecvText(c, text)
    \/ PipelineStep

SpecTyped == InitSession /\ [][NextTyped]_vars

(***************************************************************************)
(* Buffer model: any sequence of append and clear calls on one AudioBuffer.*)
(* Samples are numbered in the order they are appended.  lastOp also keeps *)
(* the samples appended since the buffer was last cleared (written) and    *)
(* whether every chunk among them was at most Capacity long (fits).        *)
(***************************************************************************)
InitBuffer ==
    /\ HandlerInit
    /\ EnvInit
    /\ stream = "unset"
    /\ llm_provider = "ollama"
    /\ lastOp = [op |-> "none", chunk |-> <<>>, raised |-> FALSE, before |-> AudioBufferInit,
                written |-> <<>>, fits |-> TRUE]
    /\ opCount = 0

\* The next n samples of the stream, numbered after those already appended.
NextChunk(n) == [k \in 1..n |-> opCount * MaxBurst + k]

BufAppend ==
    /\ opCount < MaxOps
    /\ \E n \in 0..MaxBurst :
         LET r == append(audio_buffer, NextChunk(n)) IN
         /\ audio_buffer' = r.buf
         /\ lastOp' = [op |-> "append", chunk |-> NextChunk(n),
                       raised |-> r.raised, before |-> audio_buffer,
                       written |-> lastOp.written \o NextChunk(n),
                       fits |-> lastOp.fits /\ n <= Capacity]
    /\ opCount' = opCount + 1
    /\ UNCHANGED <<handlerVars, envVars>>

BufClear ==
    /\ opCount < MaxOps
    /\ audio_buffer' = clear(audio_buffer)
    /\ lastOp' = [op |-> "clear", chunk |-> <<>>, raised |-> FALSE,
                  before |-> audio_buffer, written |-> <<>>, fits |-> TRUE]
    /\ opCount' = opCount + 1
    /\ UNCHANGED <<handlerVars, envVars>>

NextBuffer == BufAppend \/ BufClear

SpecBuffer == InitBuffer /\ [][NextBuffer]_vars

(***************************************************************************)
(* Memory model: any sequence of add_fact, get_top_facts and               *)
(* build_messages calls on one MemoryStore, each served or refused by      *)
(* sqlite.                                                                 *)
(***************************************************************************)

\* The texts written: "abc", " Abc def"; the blank ones: "", " ", None;
\* the queries asked: "abc", "Def abc.", "def", "xy".
FactTexts ==
    {<<"a", "b", "c">>, <<" ", "A", "b", "c", " ", "d", "e", "f">>}
BlankTexts == {<<>>, <<" ">>, NoneText}
Queries ==
    {<<"a", "b", "c">>, <<"D", "e", "f", " ", "a", "b", "c", ".">>,
     <<"d", "e", "f">>, <<"x", "y">>}

\* What each owner writes: the first owner every text, the other one "abc".
TextsOf(u) ==
    IF u = "default" THEN FactTexts \cup BlankTexts ELSE {<<"a", "b", "c">>}

InitMemory ==
    /\ HandlerInit
    /\ EnvInit
    /\ stream = "unset"
    /\ llm_provider = "ollama"
    /\ lastOp = [op |-> "none"]
    /\ opCount = 0

MemAdd ==
    /\ Len(facts) < MaxRows
    /\ \E u \in Owners : \E text \in TextsOf(u), db_ok \in BOOLEAN :
         LET r == add_fact(facts, u, text, db_ok) IN
         /\ facts' = r.rows
         /\ lastOp' = [op |-> "add_fact", user_id |-> u, fact |-> text,
                       db_ok |-> db_ok, raised |-> r.raised, before |-> facts]
    /\ UNCHANGED <<audio_buffer, opCount, handlerVars, now, conns, pending, turns,
                   notices, vad_hist, counts>>

MemQuery ==
    /\ \E u \in Owners, query \in Queries, limit \in 0..MaxLimit, db_ok \in BOOLEAN :
         lastOp' = [op |-> "get_top_facts", user_id |-> u, query |-> query,
                    limit |-> limit, db_ok |-> db_ok,
                    result |-> get_top_facts(facts, u, query, limit, db_ok)]
    /\ UNCHANGED <<audio_buffer, opCount, handlerVars, envVars>>

MemBuild ==
    /\ \E u \in Owners, query \in Queries, db_ok \in BOOLEAN :
         lastOp' = [op |-> "build_messages", user_id |-> u, user_text |-> query,
                    db_ok |-> db_ok,
                    result |-> build_messages(facts, u, query, SystemPrompt, db_ok)]
    /\ UNCHANGED <<audio_buffer, opCount, handlerVars, envVars>>

NextMemory == MemAdd \/ MemQuery \/ MemBuild

SpecMemory == InitMemory /\ [][NextMemory]_vars

(***************************************************************************)
(* Extraction model: maybe_extract_fact applied to one text.  The text is  *)
(* put together from leading whitespace, a prefix, a body of one, three or *)
(* four words, a final character and trailing whitespace; lastOp keeps how *)
(* it was put together.                                                    *)
(***************************************************************************)
Pads == {<<>>, <<" ">>}
\* "" (no prefix), "Eu Moro Em ", "eu sou ", "por que ", "Onde fica ".
PrefixOf(kind) ==
    CASE kind = "decl" ->
           {<<"E", "u", " ", "M", "o", "r", "o", " ", "E", "m", " ">>,
            <<"e", "u", " ", "s", "o", "u", " ">>}
      [] kind = "quest" ->
           {<<"p", "o", "r", " ", "q", "u", "e", " ">>,
            <<"O", "n", "d", "e", " ", "f", "i", "c", "a", " ">>}
      [] OTHER -> {<<>>}
\* "a", "a b c", "a b c d".
Bodies == {<<"a">>, <<"a", " ", "b", " ", "c">>, <<"a", " ", "b", " ", "c", " ", "d">>}
Finals == {<<>>, <<".">>, <<"!">>, <<"?">>, <<",">>}

ExtractInputs ==
    {[kind |-> kind, core |-> pre \o body \o fin, text |-> l \o pre \o body \o fin \o r] :
        kind \in {"decl"}, pre \in PrefixOf("decl"), body \in Bodies,
        fin \in Finals, l \in Pads, r \in Pads}
    \cup
    {[kind |-> kind, core |-> pre \o body \o fin, text |-> l \o pre \o body \o fin \o r] :
        kind \in {"quest"}, pre \in PrefixOf("quest"), body \in Bodies,
        fin \in Finals, l \in Pads, r \in Pads}
    \cup
    {[kind |-> kind, core |-> body \o fin, text |-> l \o body \o fin \o r] :
        kind \in {"plain"}, body \in Bodies, fin \in Finals, l \in Pads, r \in Pads}
    \cup
    {[kind |-> "blank", core |-> <<>>, text |-> l \o r] : l \in Pads, r \in Pads}

InitExtract ==
    /\ HandlerInit
    /\ EnvInit
    /\ stream = "unset"
    /\ llm_provider = "ollama"
    /\ \E in \in ExtractInputs : lastOp = [op |-> "input", input |-> in]
    /\ opCount = 0

Extract ==
    /\ lastOp.op = "input"
    /\ lastOp' = [op |-> "maybe_extract_fact", input |-> lastOp.input,
                  result |-> maybe_extract_fact(lastOp.input.text)]
    /\ UNCHANGED <<audio_buffer, opCount, handlerVars, envVars>>

NextExtract == Extract

SpecExtract == InitExtract /\ [][NextExtract]_vars

(***************************************************************************)
(* HTTP chat model: POST /api/chat on the memory store, any owner, any     *)
(* text of ChatTexts.  lastOp keeps the request, the table before it, the  *)
(* fact extracted and the system content of the prompt sent to the engine. *)
(***************************************************************************)
ChatTexts ==
    {Utterance(name) : name \in SessionTexts} \cup {<<"a", "b", "c", ".">>}

\* chat_endpoint, main.py lines 339-355: the fact is extracted and written
\* (lines 344-346), then the prompt is built from the table (line 349) and
\* the engine is called (line 350).  write_ok and read_ok are whether sqlite
\* serves add_fact and get_top_facts, llm_ok whether ollama_chat returns.
\* Any exception ends the request with status 500 (lines 353-355); a failed
\* read is caught inside build_messages.
chat_endpoint(rows, user_id, text, write_ok, read_ok, llm_ok) ==
    LET fact == maybe_extract_fact(text)
        w == IF fact # NoneText /\ Len(fact) > 0
             THEN add_fact(rows, user_id, fact, write_ok)
             ELSE [raised |-> FALSE, rows |-> rows]
        messages == build_messages(w.rows, user_id, text, SystemPrompt, read_ok).messages
    IN
    IF w.raised
    THEN [status |-> 500, rows |-> w.rows, fact |-> fact, prompt |-> <<>>]
    ELSE [status |-> IF llm_ok THEN 200 ELSE 500, rows |-> w.rows, fact |-> fact,
          prompt |-> messages[1].content]

InitChat ==
    /\ HandlerInit
    /\ EnvInit
    /\ stream = "unset"
    /\ llm_provider = "ollama"
    /\ lastOp = [op |-> "none"]
    /\ opCount = 0

Chat ==
    /\ Len(facts) < MaxRows
    /\ \E u \in Owners, text \in ChatTexts,
          write_ok \in BOOLEAN, read_ok \in BOOLEAN, llm_ok \in BOOLEAN :
         LET r == chat_endpoint(facts, u, text, write_ok, read_ok, llm_ok) IN
         /\ facts' = r.rows
         /\ lastOp' = [op |-> "chat_endpoint", user_id |-> u, text |-> text,
                       before |-> facts, fact |-> r.fact, status |-> r.status,
                       prompt |-> r.prompt]
    /\ UNCHANGED <<audio_buffer, opCount, handlerVars, now, conns, pending, turns,
                   notices, vad_hist, counts>>

NextChat == Chat

SpecChat == InitChat /\ [][NextChat]_vars

(***************************************************************************)
(* Properties                                                              *)
(***************************************************************************)

\* C1: within one session turns are strictly sequential: no pipeline begins
\* while another pipeline of the same handler has started and has not yet
\* made its last send.  (A turn at "fin" has made its last send and is not
\* counted.)
C1_TurnsSequential ==
    Cardinality({t \in DOMAIN turns : turns[t].pc # "fin"}) <= 1

\* C2: an utterance (voiced blocks followed by SILENCE_DURATION of unvoiced
\* blocks) dispatches exactly one end-of-speech event, and right after the
\* callback that dispatched it the buffer is empty and not recording.
C2_OneEndOfSpeech ==
    /\ vad_hist.eos <= 1
    /\ vad_hist.dispatched => vad_hist.idle_after

\* C3: appending one chunk longer than the capacity never raises and leaves
\* in the ring exactly the most recent Capacity samples of the chunk.
C3_BurstKeepsMostRecent ==
    (lastOp.op = "append" /\ Len(lastOp.chunk) > Capacity) =>
        /\ ~lastOp.raised
        /\ [k \in 1..Capacity |->
              audio_buffer.data[(audio_buffer.start_idx + k - 1) % Capacity]]
           = SubSeq(lastOp.chunk, Len(lastOp.chunk) - Capacity + 1, Len(lastOp.chunk))

\* C4: after any sequence of append and clear calls the window holds at most
\* Capacity samples and both cursors lie in 0..Capacity-1.
C4_CursorsInRange ==
    /\ WindowSize(audio_buffer) <= Capacity
    /\ Len(Window(audio_buffer)) <= Capacity
    /\ audio_buffer.start_idx \in 0..(Capacity - 1)
    /\ audio_buffer.end_idx \in 0..(Capacity - 1)

\* C4 witness: an append that had to discard old samples and moved the read
\* cursor around the end of the ring.
C4_Witness ==
    /\ lastOp.op = "append"
    /\ Available(lastOp.before) < Len(lastOp.chunk)
    /\ lastOp.before.start_idx + (Len(lastOp.chunk) - Available(lastOp.before)) >= Capacity
    /\ audio_buffer.start_idx # lastOp.before.start_idx

\* C5: every connection has its own session: whatever a turn sends goes to
\* the transport of the connection the turn was started on.
C5_OwnTransport ==
    \A t \in DOMAIN turns : \A k \in DOMAIN turns[t].out :
        turns[t].out[k].conn = turns[t].conn

\* C6: within a turn the sends are ordered: the audio frame only after the
\* turn's reply text, the reply text only after the turn's transcript echo.
C6_SendOrder ==
    \A t \in DOMAIN turns :
        LET out == turns[t].out
            kind == turns[t].kind
        IN
        \A k \in DOMAIN out :
            /\ out[k].type = "audio" =>
                  /\ \E j \in 1..(k - 1) : out[j].type = ReplyType(kind)
                  /\ \A j \in (k + 1)..Len(out) :
                        out[j].type \notin {ReplyType(kind), EchoType(kind)}
            /\ out[k].type = ReplyType(kind) =>
                  /\ \E j \in 1..(k - 1) : out[j].type = EchoType(kind)
                  /\ \A j \in (k + 1)..Len(out) : out[j].type # EchoType(kind)

\* C6 witness: a turn that has sent echo, reply text and audio frame, all of
\* them delivered.
C6_Witness ==
    \E t \in DOMAIN turns :
        /\ turns[t].pc = "fin"
        /\ Len(turns[t].out) = 3
        /\ turns[t].out[3].type = "audio"
        /\ \A k \in 1..3 : turns[t].out[k].ok

\* C7: when the completion engine fails in a typed-text turn, a non-empty
\* reply is still sent as a response frame by the end of the turn.
C7_FallbackReplyDelivered ==
    \A t \in DOMAIN turns :
        (turns[t].kind = "text" /\ turns[t].llm_failed /\ turns[t].pc = "fin") =>
            /\ turns[t].reply # None
            /\ \E k \in DOMAIN turns[t].out : turns[t].out[k].type = "response"

\* C8: a failing fact write does not suppress the turn: the reply text is
\* still sent and no error notice takes its place.
C8_WriteFailureKeepsReply ==
    \A t \in DOMAIN turns :
        turns[t].add_failed =>
            /\ \E k \in DOMAIN turns[t].out :
                  turns[t].out[k].type = ReplyType(turns[t].kind)
            /\ \A k \in DOMAIN turns[t].out : turns[t].out[k].type # "error"

\* C9: when the completion engine fails in an audio turn, an error notice is
\* sent and the turn sends neither assistant_text nor an audio frame.
C9_AudioTurnAborts ==
    \A t \in DOMAIN turns :
        (turns[t].kind = "audio" /\ turns[t].llm_failed) =>
            /\ turns[t].pc = "fin"
            /\ \E k \in DOMAIN turns[t].out : turns[t].out[k].type = "error"
            /\ \A k \in DOMAIN turns[t].out :
                  turns[t].out[k].type \notin {"assistant_text", "audio"}

\* C9 witness: an audio turn whose completion failed after its echo was
\* delivered.
C9_Witness ==
    \E t \in DOMAIN turns :
        /\ turns[t].kind = "audio"
        /\ turns[t].llm_failed
        /\ turns[t].out[1].type = "user_speech"
        /\ turns[t].out[1].ok

\* C10: when synthesis fails, no binary audio frame is sent; the turn ends
\* with the reply text already sent.
C10_NoAudioOnSynthFailure ==
    \A t \in DOMAIN turns :
        turns[t].tts \in {"failed", "raised"} =>
            /\ \A k \in DOMAIN turns[t].out : turns[t].out[k].type # "audio"
            /\ \E k \in DOMAIN turns[t].out :
                  turns[t].out[k].type = ReplyType(turns[t].kind)

\* C11: when a turn ends, normally or by a failure, the audio segment state
\* is cleared: after the step that ends a turn the window is empty and the
\* recording flag is false.
C11_SegmentClearedAtTurnEnd ==
    [][\A t \in DOMAIN turns :
          Finish(t) => /\ WindowSize(audio_buffer') = 0
                       /\ ~audio_buffer'.is_recording]_vars

\* C12: a completed segment is acted upon only while listening: a
\* _process_audio task that starts while is_listening is false starts no
\* turn (no transcript echo, no error notice, no fact write).
C12_ActsOnlyWhenListening ==
    [][(StartAudio /\ ~is_listening) =>
          (turns' = turns /\ facts' = facts /\ notices' = notices)]_vars

\* C13: a segment of voiced blocks only is cut and handed over once it
\* reaches the maximum duration: when the recorded window holds at least
\* MaxSegment clock units of samples, all of them voiced, an end-of-speech
\* task has been created or an audio turn has been started.
C13_ForcedCut ==
    (/\ audio_buffer.is_recording
     /\ WindowSize(audio_buffer) >= MaxSegment * SAMPLE_RATE
     /\ \A k \in 1..WindowSize(audio_buffer) :
           IsSpeaking(<<Window(audio_buffer)[k]>>, vad_threshold))
    => (pending > 0 \/ \E t \in DOMAIN turns : turns[t].kind = "audio")

\* C14: a task that starts on an empty window (start_idx = end_idx) or on a
\* segment holding only unvoiced samples drops it: no turn is started and
\* nothing is sent.
C14_EmptySegmentDropped ==
    [][(/\ StartAudio
        /\ audio_buffer.is_recording
        /\ \/ audio_buffer.start_idx = audio_buffer.end_idx
           \/ \A k \in DOMAIN Segment(audio_buffer) :
                 ~IsSpeaking(<<Segment(audio_buffer)[k]>>, vad_threshold))
       => (turns' = turns /\ notices' = notices)]_vars

\* C15: a text frame that is not valid JSON gets an error notice on the
\* connection's transport, leaves is_listening, the buffer, the VAD
\* threshold and the user id unchanged, and the loop goes on receiving.
C15_BadJsonNotice ==
    [][\A c \in Session :
          RecvBadJson(c) =>
             /\ Len(notices') = Len(notices) + 1
             /\ notices'[Len(notices')].type = "error"
             /\ notices'[Len(notices')].conn = c
             /\ notices'[Len(notices')].ok
             /\ SubSeq(notices', 1, Len(notices)) = notices
             /\ UNCHANGED <<is_listening, audio_buffer, vad_threshold, current_user_id>>
             /\ conns'[c] = [pc |-> "loop", open |-> TRUE]]_vars

\* C15 witness: an error notice was delivered on the open connection while
\* the session was listening and the buffer held samples, and the loop is
\* receiving again.
C15_Witness ==
    /\ Len(notices) > 0
    /\ notices[Len(notices)].type = "error"
    /\ notices[Len(notices)].ok
    /\ is_listening
    /\ WindowSize(audio_buffer) > 0
    /\ conns[1] = [pc |-> "loop", open |-> TRUE]

\* C16: a valid JSON frame whose type is unknown or missing gets an error
\* notice on the connection's transport and changes nothing else.
C16_UnknownTypeNotice ==
    [][\A c \in Session :
          RecvIgnored(c) =>
             /\ Len(notices') = Len(notices) + 1
             /\ notices'[Len(notices')].type = "error"
             /\ UNCHANGED <<is_listening, audio_buffer, vad_threshold, current_user_id>>]_vars

\* C18: when the transport is closed while a turn is in flight, every
\* remaining delivery step of the turn fails silently: no send lets an
\* exception out, the pipeline keeps to its steps, and an error notice in
\* the turn comes from a collaborator that failed, never from a failed send.
C18_DeliveryFailsSilently ==
    \A t \in DOMAIN turns :
        /\ \A k \in DOMAIN turns[t].out : ~turns[t].out[k].raised
        /\ turns[t].pc \in {"llm", "reply", "fin"}
        /\ (\E k \in DOMAIN turns[t].out : turns[t].out[k].type = "error") =>
              \/ turns[t].llm_failed
              \/ turns[t].add_failed
              \/ turns[t].tts = "raised"
              \/ turns[t].text = None

\* C18 witness: the transport closed after the echo of a turn was delivered;
\* the reply text and the audio frame were attempted and failed, and the
\* turn reached its end.
C18_Witness ==
    \E t \in DOMAIN turns :
        /\ turns[t].pc = "fin"
        /\ Len(turns[t].out) = 3
        /\ turns[t].out[1].ok
        /\ ~turns[t].out[2].ok
        /\ turns[t].out[3].type = "audio"
        /\ ~turns[t].out[3].ok

\* C17: after accept, a connect that fails or loses its connection ends
\* without raising and leaves the session released: stream closed, buffer
\* cleared, is_listening false.
C17_ConnectReleases ==
    \A c \in Conns :
        /\ conns[c].pc # "raised"
        /\ conns[c].pc = "ended" =>
              /\ stream = "none"
              /\ WindowSize(audio_buffer) = 0
              /\ ~audio_buffer.is_recording
              /\ ~is_listening

\* C19: ingestion never waits on a turn: while the stream is open the
\* callback can run in every state, turns in flight included, and each run
\* appends its block at the write cursor whatever the recording and
\* listening flags are, creates at most one task and touches no turn.
C19_IngestionNeverWaits ==
    /\ [](stream = "open" /\ now < MaxTime =>
             ENABLED (\E amp \in Amplitudes : AudioCallback(amp)))
    /\ [][\A amp \in Amplitudes :
             AudioCallback(amp) =>
                /\ \A k \in 0..(CHUNK_SIZE - 1) :
                      audio_buffer'.data[(audio_buffer.end_idx + k) % Capacity] = amp
                /\ audio_buffer'.end_idx = (audio_buffer.end_idx + CHUNK_SIZE) % Capacity
                /\ pending' \in {pending, pending + 1}
                /\ turns' = turns]_vars

\* C19 witness: a voiced block was ingested while an audio turn awaits the
\* completion engine (the turn reset the recording flag when it started).
C19_Witness ==
    \E t \in DOMAIN turns :
        /\ turns[t].kind = "audio"
        /\ turns[t].pc = "llm"
        /\ audio_buffer.is_recording
        /\ WindowSize(audio_buffer) > 0

\* C20: get_top_facts returns at most limit entries, for every limit >= 0
\* (0 included), on the scored path and on the fallback path.
C20_AtMostLimit ==
    lastOp.op = "get_top_facts" => Len(lastOp.result.facts) <= lastOp.limit

\* C21: get_top_facts never returns the same text twice, on the scored path
\* and on the fallback path.
C21_NoDuplicates ==
    (lastOp.op = "get_top_facts" /\ ~lastOp.result.raised) =>
        \A i, j \in DOMAIN lastOp.result.facts :
            i # j => lastOp.result.facts[i] # lastOp.result.facts[j]

\* C22: on the scored path get_top_facts looks only at the owner's ROW_LIMIT
\* most recent facts, scores each by the number of query tokens of length
\* >= 3 it contains (case-insensitive substring), returns no fact of score
\* zero, and returns the others in non-increasing score order, equal scores
\* in scan (recency) order; a positive-scoring fact is left out only when
\* the result is full, and then it ranks after every returned fact.  The
\* fallback path is taken only when no scanned fact scores.
C22_ScoredOrder ==
    (lastOp.op = "get_top_facts" /\ ~lastOp.result.raised) =>
        LET res == lastOp.result.facts
            tokens == QueryTokens(lastOp.query)
            mine == SelectSeq(facts, LAMBDA r : r.user_id = lastOp.user_id)
            scan == [k \in 1..Min(ROW_LIMIT, Len(mine)) |-> mine[Len(mine) - k + 1].fact]
            sc(f) == Cardinality({i \in DOMAIN tokens : Contains(lower(f), tokens[i])})
            first(f) == CHOOSE k \in DOMAIN scan :
                            scan[k] = f /\ \A m \in 1..(k - 1) : scan[m] # f
            before(f, kf, g, kg) == sc(f) > sc(g) \/ (sc(f) = sc(g) /\ kf < kg)
        IN
        IF lastOp.result.path = "scored"
        THEN /\ \A i \in DOMAIN res :
                    (\E k \in DOMAIN scan : scan[k] = res[i]) /\ sc(res[i]) > 0
             /\ \A i, j \in DOMAIN res :
                    i < j => before(res[i], first(res[i]), res[j], first(res[j]))
             /\ \A k \in DOMAIN scan :
                    (sc(scan[k]) > 0 /\ \A i \in DOMAIN res : res[i] # scan[k]) =>
                        /\ Len(res) >= lastOp.limit
                        /\ \A i \in DOMAIN res :
                              before(res[i], first(res[i]), scan[k], k)
        ELSE \A k \in DOMAIN scan : sc(scan[k]) = 0

\* C22 witness: a scored result over an owner with more than ROW_LIMIT rows
\* in which the sort moved an older, higher-scoring fact ahead of a newer one.
C22_Witness ==
    /\ lastOp.op = "get_top_facts"
    /\ lastOp.result.path = "scored"
    /\ Len(SelectSeq(facts, LAMBDA r : r.user_id = lastOp.user_id)) > ROW_LIMIT
    /\ Len(lastOp.result.facts) >= 2
    /\ LET res == lastOp.result.facts
           scan == SelectRows(facts, lastOp.user_id)
           tokens == QueryTokens(lastOp.query)
       IN /\ Score(res[1], tokens) > Score(res[2], tokens)
          /\ \E k1, k2 \in DOMAIN scan :
                scan[k1] = res[1] /\ scan[k2] = res[2] /\ k2 < k1
                /\ \A m \in 1..(k1 - 1) : scan[m] # res[1]

C24_ReadFailureGivesEmpty ==
    (lastOp.op = "get_top_facts" /\ ~lastOp.db_ok) =>
        (~lastOp.result.raised /\ lastOp.result.facts = <<>>)

\* C25: add_fact with empty, None or whitespace-only text changes nothing
\* and does not raise; with any other text (and sqlite serving the call) it
\* adds exactly one row, under the given owner, holding the text without its
\* leading and trailing whitespace.
C25_AddFactTrims ==
    lastOp.op = "add_fact" =>
        LET text == lastOp.fact
            blank == text = NoneText \/ \A k \in DOMAIN text : IsSpace(text[k])
        IN
        IF blank THEN ~lastOp.raised /\ facts = lastOp.before
        ELSE lastOp.db_ok =>
             /\ ~lastOp.raised
             /\ Len(facts) = Len(lastOp.before) + 1
             /\ SubSeq(facts, 1, Len(lastOp.before)) = lastOp.before
             /\ facts[Len(facts)].user_id = lastOp.user_id
             /\ LET new == facts[Len(facts)].fact IN
                /\ Len(new) > 0
                /\ ~IsSpace(new[1]) /\ ~IsSpace(new[Len(new)])
                /\ \E i, j \in 0..Len(text) :
                      /\ i + Len(new) + j = Len(text)
                      /\ SubSeq(text, i + 1, i + Len(new)) = new
                      /\ \A k \in 1..i : IsSpace(text[k])
                      /\ \A k \in (i + Len(new) + 1)..Len(text) : IsSpace(text[k])

\* C25 witness: a text with leading whitespace was written as one new row.
C25_Witness ==
    /\ lastOp.op = "add_fact"
    /\ lastOp.fact # NoneText
    /\ Len(lastOp.fact) > 0
    /\ IsSpace(lastOp.fact[1])
    /\ Len(facts) = Len(lastOp.before) + 1

\* C26: the fact table is append-only: every row written earlier is still
\* there with the same id, owner, text and timestamp, ids are strictly
\* increasing in write order, and get_top_facts (alone or inside
\* build_messages) never changes the store.
C26_AppendOnly ==
    [][/\ Len(facts') >= Len(facts)
       /\ SubSeq(facts', 1, Len(facts)) = facts
       /\ \A i, j \in DOMAIN facts' : i < j => facts'[i].id < facts'[j].id
       /\ (lastOp'.op \in {"get_top_facts", "build_messages"} => facts' = facts)]_vars

\* C26 witness: a row was written after two earlier rows.
C26_Witness ==
    /\ lastOp.op = "add_fact"
    /\ Len(lastOp.before) >= 2
    /\ Len(facts) > Len(lastOp.before)

\* C27: build_messages never raises and returns exactly two messages, the
\* system message then the user message carrying user_text; the system
\* content is the system prompt alone when get_top_facts returns no facts or
\* the store fails, and otherwise the prompt, the memory-introduction line
\* and one "- fact" bullet per returned fact, in the order returned.
C27_TwoMessages ==
    lastOp.op = "build_messages" =>
        LET msgs == lastOp.result.messages
            fs == get_top_facts(facts, lastOp.user_id, lastOp.user_text,
                                PROMPT_FACTS, TRUE).facts
            n == Len(fs)
            content == msgs[1].content
            start[k \in 1..n] ==
                IF k = 1 THEN Len(SystemPrompt) + Len(MemoryIntro)
                ELSE start[k - 1] + 2 + Len(fs[k - 1]) + 1
        IN
        /\ ~lastOp.result.raised
        /\ Len(msgs) = 2
        /\ msgs[1].role = "system"
        /\ msgs[2] = [role |-> "user", content |-> lastOp.user_text]
        /\ IF ~lastOp.db_ok \/ n = 0 THEN content = SystemPrompt
           ELSE /\ SubSeq(content, 1, start[1]) = SystemPrompt \o MemoryIntro
                /\ \A k \in 1..n :
                      /\ SubSeq(content, start[k] + 1, start[k] + 2 + Len(fs[k]))
                         = <<"-", " ">> \o fs[k]
                      /\ k < n => content[start[k] + 3 + Len(fs[k])] = "\n"
                /\ Len(content) = start[n] + 2 + Len(fs[n])

\* C27 witness: a prompt built with two facts in its memory block.
C27_Witness ==
    /\ lastOp.op = "build_messages"
    /\ lastOp.db_ok
    /\ Len(get_top_facts(facts, lastOp.user_id, lastOp.user_text,
                         PROMPT_FACTS, TRUE).facts) = 2
    /\ Len(lastOp.result.messages[1].content) > Len(SystemPrompt)

\* C28: end to end, in a connected session: when a typed-text turn with the
\* fact-bearing utterance "eu moro em sp." gets past its fact write, the
\* store holds exactly one new row, with that text under the session's user
\* id; and the prompt built for a later turn whose text shares a token of
\* length >= 3 with a stored fact of that user carries the fact as a bullet
\* of its memory block.
C28_FactSurfacesLater ==
    /\ [](\A t \in DOMAIN turns :
            (turns[t].text # None /\ turns[t].rows_read > 0) =>
                LET toks == _tokenize(lower(Utterance(turns[t].text))) IN
                \A k \in 1..turns[t].rows_read :
                    (/\ facts[k].user_id = turns[t].user_id
                     /\ \E i \in DOMAIN toks :
                           Len(toks[i]) >= 3 /\ Contains(lower(facts[k].fact), toks[i]))
                    => /\ Contains(turns[t].prompt, MemoryIntro)
                       /\ Contains(turns[t].prompt, <<"-", " ">> \o facts[k].fact))
    /\ [][\A t \in DOMAIN turns :
            (/\ Len(turns') = Len(turns)
             /\ turns[t].kind = "text"
             /\ turns[t].text = "eu moro em sp."
             /\ turns[t].pc = "llm"
             /\ turns'[t].pc # "llm"
             /\ ~turns'[t].add_failed)
            => /\ Len(facts') = Len(facts) + 1
               /\ SubSeq(facts', 1, Len(facts)) = facts
               /\ facts'[Len(facts')].user_id = turns[t].user_id
               /\ facts'[Len(facts')].fact =
                     <<"e", "u", " ", "m", "o", "r", "o", " ", "e", "m", " ", "s", "p", ".">>]_vars

\* C28 witness: a typed-text turn on an open connection, started after a
\* fact was stored, whose text shares the token "moro" with the fact and
\* whose prompt carries the fact.
C28_Witness ==
    \E t \in DOMAIN turns :
        /\ turns[t].kind = "text"
        /\ turns[t].text = "eu moro em sp."
        /\ turns[t].rows_read >= 1
        /\ conns[turns[t].conn].open
        /\ facts[1].user_id = turns[t].user_id
        /\ Contains(turns[t].prompt, <<"-", " ">> \o facts[1].fact)

C30_WindowIsMostRecent ==
    (lastOp.op \in {"append", "clear"} /\ lastOp.fits) =>
        LET total == Len(lastOp.written)
            kept == Min(total, Capacity)
        IN Window(audio_buffer) = SubSeq(lastOp.written, total - kept + 1, total)

\* C31: the segment an audio turn hands to the transcription engine never
\* holds more than MaxSegment seconds of samples, whatever the cursors of the
\* buffer are when the task starts (wrapped window and start_idx = end_idx
\* included).
C31_SegmentBounded ==
    [][(StartAudio /\ audio_buffer.is_recording)
       => Len(Segment(audio_buffer)) <= MaxSegment * SAMPLE_RATE]_vars

\* C33: every turn that reaches the completion step, typed-text or audio,
\* calls the engine of the configured provider: never Ollama under
\* llm_provider = "openai", never OpenAI under llm_provider = "ollama".
C33_ConfiguredEngine ==
    \A t \in DOMAIN turns :
        turns[t].text # None => turns[t].engine = llm_provider

\* C35: an utterance that begins while an earlier audio turn is in flight is
\* not lost: the completion of the earlier turn leaves the recording flag
\* set and the samples of the newer utterance in the window, so that its own
\* end of speech leads to a turn over a segment holding them.
C35_NewerUtteranceKept ==
    [][\A t \in DOMAIN turns :
          (Finish(t) /\ turns[t].kind = "audio" /\ audio_buffer.is_recording)
          => /\ audio_buffer'.is_recording
             /\ Window(audio_buffer') = Window(audio_buffer)]_vars

\* C34: of the _process_audio tasks created for one silence period (the
\* unvoiced blocks that follow the same most recent voiced block), at most
\* one passes the recording-flag guard and runs the pipeline.
C34_OneTaskPerSilence ==
    \A i, j \in DOMAIN vad_hist.ran :
        i # j => vad_hist.ran[i] # vad_hist.ran[j]

\* C32: a voiced block always clears the silence timer and sets the
\* recording flag, and creates no task; an end-of-speech task is created
\* only when at least SILENCE_DURATION has elapsed since the first unvoiced
\* block after the most recent voiced block, which is where the timer
\* stands.  Voice resuming before the timeout therefore restarts the timer
\* from the next unvoiced block.
C32_SilenceTimer ==
    /\ [](vad_hist.dispatched =>
             /\ vad_hist.voiced_at # 0
             /\ vad_hist.silent_at # <<>>
             /\ silence_start_time = vad_hist.silent_at
             /\ now - vad_hist.silent_at[1] >= SILENCE_DURATION)
    /\ [][(/\ now' > now
           /\ IsSpeaking(
                 [k \in 1..CHUNK_SIZE |->
                     audio_buffer'.data[(audio_buffer'.end_idx + Capacity - 1)
                                           % Capacity]],
                 vad_threshold))
          => /\ silence_start_time' = <<>>
             /\ audio_buffer'.is_recording
             /\ pending' = pending]_vars

\* C32 witness: voice resumed while the timer was running, and the task was
\* created SILENCE_DURATION after the first unvoiced block that followed.
C32_Witness ==
    /\ vad_hist.dispatched
    /\ vad_hist.resumed
    /\ vad_hist.silent_at = <<vad_hist.voiced_at + 1>>
    /\ now = vad_hist.silent_at[1] + SILENCE_DURATION

\* C36: get_top_facts(u, q, limit) returns only texts stored under owner u,
\* and returns what it would return on a table holding the rows of u alone,
\* on the scored path as on the fallback path.
C36_OwnerIsolation ==
    (lastOp.op = "get_top_facts" /\ ~lastOp.result.raised) =>
        LET u == lastOp.user_id
            own == SelectSeq(facts, LAMBDA r : r.user_id = u)
        IN /\ \A k \in DOMAIN lastOp.result.facts :
                 \E i \in DOMAIN facts :
                    /\ facts[i].user_id = u
                    /\ facts[i].fact = lastOp.result.facts[k]
           /\ lastOp.result =
                 get_top_facts(own, u, lastOp.query, lastOp.limit, TRUE)

\* C36 witness: a query of owner u2 that another owner's fact matches better
\* than the only fact of u2, which is what is returned.
C36_Witness ==
    /\ lastOp.op = "get_top_facts"
    /\ lastOp.user_id = "u2"
    /\ lastOp.result.path = "scored"
    /\ lastOp.result.facts = << <<"a", "b", "c">> >>
    /\ \E i \in DOMAIN facts :
          /\ facts[i].user_id = "default"
          /\ Score(facts[i].fact, QueryTokens(lastOp.query)) = 2

\* C38: a turn's prompt is built before the fact extracted from the same
\* utterance is written, in the HTTP entry point as in the websocket ones:
\* the memory block of the prompt never holds a fact that the same request
\* stored for the first time.
C38_PromptBeforeFact ==
    (/\ lastOp.op = "chat_endpoint"
     /\ lastOp.fact # NoneText
     /\ Len(facts) = Len(lastOp.before) + 1
     /\ \A i \in DOMAIN lastOp.before :
           ~(/\ lastOp.before[i].user_id = lastOp.user_id
             /\ lastOp.before[i].fact = lastOp.fact))
    => ~Contains(lastOp.prompt, <<"-", " ">> \o lastOp.fact)

C39_TypedTurnInline ==
    /\ [](\A c \in Session :
             Cardinality({t \in DOMAIN turns :
                             turns[t].kind = "text" /\ turns[t].conn = c}) <= 1)
    /\ [][(\E t \in DOMAIN turns : turns[t].kind = "text")
          => (counts'.msgs = counts.msgs /\ notices' = notices)]_vars

\* C39 witness: the second typed-text turn of the connection is in flight,
\* alone, after the first one has returned.
C39_Witness ==
    /\ counts.turns = 2
    /\ counts.msgs = 2
    /\ Len(turns) = 1
    /\ turns[1].kind = "text"
    /\ turns[1].pc = "reply"
    /\ conns[turns[1].conn].pc = "turn"

=============================================================================
